---- MODULE Spec2Model ----
(***************************************************************************)
(* StratEko streaming proxy: asynchronous job lifecycle, stream ingestion  *)
(* and expiry reaper.  The repository holds four server programs, each     *)
(* with its own in-memory job map:                                         *)
(*   "sdk"        src/index.js lines 1-69     (SDK stream, output_text)    *)
(*   "raw"        src/index.js lines 71-363   (fetch + raw "data: " lines) *)
(*   "structured" src/unnamed/part_001        (Responses API events)       *)
(*   "delta"      src/unnamed/part_002        (chat completion chunks)     *)
(* A behaviour of the model is a run of one of them (variable variant).    *)
(* One action is one run-to-completion turn of the Node event loop: a      *)
(* request handler, a continuation after an await, or a timer callback.    *)
(***************************************************************************)
EXTENDS Integers, Sequences, FiniteSets, TLC

\* ------------------------------------------------------------------ bounds
\* jobs created in a run; stream events delivered in a run with one job and
\* in a run with several jobs; reaper cycles
MaxJobs == 2
MaxEvents == 4
MaxSharedEvents == 1
MaxCycles == 9

\* ------------------------------------------------------- program constants
CHUNK_SIZE == 150
DELAY_MS == 300
MAX_AGE == 15 * 60 * 1000
REAP_INTERVAL == 2 * 60 * 1000

\* ------------------------------------------------------ JavaScript values
\* null and a missing property (undefined), for number-valued and for
\* string-valued fields
NullNum == 0 - 1
UndefNum == 0 - 2
NullStr == "<null>"
UndefStr == "<undefined>"

Variants == {"sdk", "raw", "structured", "delta"}
Ids == 1..MaxJobs

Min(a, b) == IF a <= b THEN a ELSE b

\* a text of n characters: the character c, with a dash at every seventh
\* place, so that a window of the text that starts later is no prefix of it
Rep(n, c) == [i \in 1..n |-> IF i % 7 = 0 THEN "-" ELSE c]

\* String.prototype.substring(0, end)
Substring0(t, end) == SubSeq(t, 1, Min(end, Len(t)))

\* JavaScript truthiness of a string-valued input (!x is Falsy(x))
Falsy(x) == x \in {"", UndefStr, NullStr}

\* the absent entry of the jobs Map (jobs.get(id) === undefined)
NoJob == [status |-> "<absent>"]

Job(st, tx, er, cr, tk, sa, ca) ==
    [status |-> st, text |-> tx, error |-> er, createdAt |-> cr,
     tokensUsed |-> tk, startedAt |-> sa, completedAt |-> ca]

VARIABLES variant, load, now, lastReap, events, jobs, task, ghost, resp

vars == <<variant, load, now, lastReap, events, jobs, task, ghost, resp>>

\* the size of a run: the create requests accepted, the stream events the
\* upstream delivers in all, and whether the texts the status polls return
\* are kept for comparison with the final text
Loads == {[jobs |-> 1, events |-> MaxEvents, watch |-> TRUE],
          [jobs |-> MaxJobs, events |-> MaxSharedEvents, watch |-> FALSE]}

HasReaper(v) == v \in {"structured", "delta"}

\* ------------------------------------------------------------ the request
\* a JavaScript number: a finite value, kept in tenths, or NaN or an infinity
Finite(tenths) == [cls |-> "finite", tenths |-> tenths]
NaN == [cls |-> "NaN", tenths |-> 0]
Infinity == [cls |-> "Infinity", tenths |-> 0]

\* a value of a JSON body, as far as Number() tells values apart
JsNumber(n) == [type |-> "number", num |-> n, str |-> ""]
JsString(t) == [type |-> "string", num |-> NaN, str |-> t]
JsNull == [type |-> "null", num |-> NaN, str |-> ""]
JsTrue == [type |-> "boolean", num |-> NaN, str |-> "true"]
JsObject == [type |-> "object", num |-> NaN, str |-> ""]

\* Number(text) for the texts of TrendValues: a numeric literal gives its
\* value, the empty text 0, any other text NaN
StringToNumber(t) ==
    CASE t = "" -> Finite(0)
      [] t = "2" -> Finite(20)
      [] t = "Infinity" -> Infinity
      [] OTHER -> NaN

\* Number(v)
ToNumber(v) ==
    CASE v.type = "number" -> v.num
      [] v.type = "string" -> StringToNumber(v.str)
      [] v.type = "null" -> Finite(0)
      [] v.type = "boolean" -> IF v.str = "true" THEN Finite(10) ELSE Finite(0)
      [] OTHER -> NaN

\* Number.isFinite(n)
IsFinite(n) == n.cls = "finite"

\* one value of the result: the if-chain of part_001 and part_002, and
\* Math.min(3, Math.max(1, n)) of index.js
NormalizeValue(v, val) ==
    LET n == ToNumber(val)
        m == IF ~IsFinite(n) THEN Finite(10) ELSE n
    IN IF HasReaper(v)
       THEN IF m.tenths < 10 THEN Finite(10)
            ELSE IF m.tenths > 30 THEN Finite(30) ELSE m
       ELSE Finite(Min(30, IF 10 >= m.tenths THEN 10 ELSE m.tenths))

\* normalizeTrends(trends): the same keys, each value normalised
normalizeTrends(v, trends) ==
    [k \in DOMAIN trends |-> NormalizeValue(v, trends[k])]

\* the trends of a request body: missing, or a map from names to values
NoTrends == [defined |-> FALSE, map |-> <<>>]

\* trends || {}
TrendsOrEmpty(tr) == IF tr.defined THEN tr.map ELSE <<>>

Focuses == {UndefStr, "project", "authorizationFramework", "bogus"}
Request(c, s, d, f) ==
    [country |-> c, sector |-> s, description |-> d, analysisFocus |-> f,
     trends |-> NoTrends]

\* all three inputs given with any analysisFocus, or one input missing or
\* empty with a good analysisFocus
Requests ==
    {Request("x", "x", "x", f) : f \in Focuses}
      \cup {Request(e, "x", "x", "project") : e \in {"", UndefStr}}
      \cup {Request("x", e, "x", "project") : e \in {"", UndefStr}}
      \cup {Request("x", "x", e, "project") : e \in {"", UndefStr}}

MissingInputs(req) ==
    Falsy(req.country) \/ Falsy(req.sector) \/ Falsy(req.description)

BadFocus(req) ==
    req.analysisFocus \notin {"project", "authorizationFramework"}

\* the documented contract of a create request
ValidRequest(req) ==
    /\ req.country \notin {"", UndefStr}
    /\ req.sector \notin {"", UndefStr}
    /\ req.description \notin {"", UndefStr}
    /\ req.analysisFocus \in {"project", "authorizationFramework"}

\* the validation of each create handler: TRUE when the handler answers 400
Rejects(v, req) ==
    CASE v = "sdk" -> MissingInputs(req)
      [] v = "raw" -> MissingInputs(req) \/ BadFocus(req)
      [] OTHER -> MissingInputs(req)
                    \/ Falsy(req.analysisFocus) \/ BadFocus(req)

\* the record the create handler stores
InitialRecord(v, t) ==
    CASE v = "sdk" ->
           Job("queued", <<>>, NullStr, UndefNum, UndefNum, UndefNum, UndefNum)
      [] v = "raw" ->
           Job("queued", <<>>, NullStr, UndefNum, UndefNum, NullNum, NullNum)
      [] OTHER ->
           Job("queued", <<>>, NullStr, t, 0, UndefNum, UndefNum)

\* variation: the runner forgets the status write
RunnerStartKeepsQueued(v, rec, t) ==
    IF v = "raw" THEN [rec EXCEPT !.startedAt = t] ELSE rec

\* first statement of the runner: the record becomes in_progress
RunnerStart(v, rec, t) ==
    IF v = "raw"
    THEN [rec EXCEPT !.status = "in_progress", !.startedAt = t]
    ELSE [rec EXCEPT !.status = "in_progress"]

\* the raw handler calls the runner before res.json, the others after it
RespondsBeforeRun(v) == v # "raw"

\* ------------------------------------------------------------ task state
IdleTask ==
    [pc |-> "idle", fullText |-> <<>>, totalTokens |-> 0,
     receivedDeltas |-> FALSE, delivered |-> 0, wakeAt |-> 0,
     trends |-> <<>>]

\* history kept for the properties: the status values written to the
\* store, the simulated snapshots written, whether the
\* reaper deleted the job, whether an incremental text was merged, whether
\* the task ended in its catch block, the last text a status poll of the job
\* returned (an empty scenario, a prefix of every text, is not kept), the
\* total of the last usage report of the stream and whether it replaced a
\* different total, the length of the longest text an item-completion or
\* terminal block carried, the length of the delta texts received, the kinds
\* of raw lines skipped and the text of the raw lines that were not skipped,
\* whether the last read ended inside a data line and the text of the data
\* lines the upstream sent, the response fetch resolved with, the objects
\* parsed from the lines of the last chunk read, the trends of the create
\* request
NoUpstream == [ok |-> FALSE, status |-> UndefNum, body |-> FALSE]

NoUsage == [last |-> UndefNum, revised |-> FALSE]

Reported(u, total) ==
    [last |-> total,
     revised |-> u.revised \/ (u.last # UndefNum /\ u.last # total)]

NoScenario == [null |-> TRUE, text |-> <<>>]

NoGhost ==
    [hist |-> <<>>, snaps |-> <<>>, reaped |-> FALSE, merged |-> FALSE,
     threw |-> FALSE, seen |-> NoScenario, usage |-> NoUsage, longest |-> 0,
     deltaLen |-> 0, skipped |-> {}, valid |-> <<>>,
     open |-> FALSE, sent |-> <<>>, upstream |-> NoUpstream, parsed |-> <<>>,
     trends |-> <<>>]

\* the response of the handler that ran in the last step, with the status
\* the store held when a create handler called res.json and whether the
\* request met the documented input contract
\* the fields of a status response body (UndefStr, UndefNum: not in the body)
Body(st, sc, er, tk, cc, ec) ==
    [status |-> st, scenario |-> sc, error |-> er, tokensUsed |-> tk,
     characterCount |-> cc, estimatedCompletion |-> ec]

NoBody == Body(UndefStr, NoScenario, UndefStr, UndefNum, UndefNum, UndefNum)

NoResp == [kind |-> "none", code |-> 0, jobId |-> 0, stored |-> "none",
           valid |-> TRUE, body |-> NoBody]

Init ==
    /\ variant \in Variants
    /\ load \in Loads
    /\ now = 0
    /\ lastReap = 0
    /\ events = 0
    /\ jobs = [i \in Ids |-> NoJob]
    /\ task = [i \in Ids |-> IdleTask]
    /\ ghost = [i \in Ids |-> NoGhost]
    /\ resp = NoResp

\* the status history after a step that took the record from old to new
Hist(g, old, new) ==
    IF new # NoJob /\ (old = NoJob \/ old.status # new.status)
    THEN [g EXCEPT !.hist = Append(@, new.status)]
    ELSE g

\* variation: the id of a finished job is issued again
UnusedOrDone(i) == i <= load.jobs /\ task[i].pc \in {"idle", "done"}

\* crypto.randomUUID(): an id no job was given before
Unused(i) == i <= load.jobs /\ task[i].pc = "idle"

\* the instants at which create requests arrive
ArrivalTimes == {0, 60 * 1000}

\* POST /create, POST /api/create
Create(req) ==
    IF Rejects(variant, req)
    THEN /\ now \in ArrivalTimes
         /\ resp' = [kind |-> "create", code |-> 400, jobId |-> 0,
                     stored |-> "none", valid |-> ValidRequest(req),
                     body |-> NoBody]
         /\ UNCHANGED <<variant, load, now, lastReap, events, jobs, task, ghost>>
    ELSE /\ now \in ArrivalTimes
         /\ \E i \in Ids : Unused(i)
         /\ LET i == CHOOSE k \in Ids : Unused(k) /\ \A m \in Ids : Unused(m) => k <= m
                rec == InitialRecord(variant, now)
                run == RunnerStart(variant, rec, now)
            IN /\ jobs' = [jobs EXCEPT ![i] = run]
               /\ task' = [task EXCEPT
                              ![i].pc = "calling",
                              ![i].trends =
                                  normalizeTrends(variant,
                                                  TrendsOrEmpty(req.trends))]
               /\ ghost' = [ghost EXCEPT ![i] =
                              Hist([@ EXCEPT !.hist = <<rec.status>>,
                                             !.trends = TrendsOrEmpty(req.trends)],
                                   rec, run)]
               /\ resp' = [kind |-> "create", code |-> 200, jobId |-> i,
                           stored |-> IF RespondsBeforeRun(variant)
                                      THEN rec.status ELSE run.status,
                           valid |-> ValidRequest(req), body |-> NoBody]
         /\ UNCHANGED <<variant, load, now, lastReap, events>>

\* ------------------------------------------------------ writes to the store
\* variation: jobs.set(id, {...jobs.get(id), text: tx}) without the guard
WriteTextUnguarded(rec, tx) ==
    IF rec = NoJob
    THEN Job(UndefStr, tx, UndefStr, UndefNum, UndefNum, UndefNum, UndefNum)
    ELSE [rec EXCEPT !.text = tx]

\* variation: the text write marks the job completed
WriteTextMarksCompleted(rec, tx) ==
    IF rec = NoJob THEN NoJob
    ELSE [rec EXCEPT !.text = tx, !.status = "completed"]

\* guarded text write: const j = jobs.get(id); if (j) { j.text = tx; ... }
WriteText(rec, tx) == IF rec = NoJob THEN NoJob ELSE [rec EXCEPT !.text = tx]

\* unguarded text write of the sdk runner: job.text = text
WriteTextSdk(rec, tx) == [rec EXCEPT !.text = tx]

\* variation: the completion is written from a copy of the record taken
\* before the task suspended, jobs.set(id, {...copy, status: "completed"})
CompleteWriteStale(v, rec, t, tm) ==
    IF rec = NoJob
    THEN Job("completed", t.fullText, NullStr, UndefNum, t.totalTokens,
             UndefNum, UndefNum)
    ELSE [rec EXCEPT !.status = "completed", !.text = t.fullText]

\* variation: a stream that brought no text is an error
CompleteWriteFailsEmpty(v, rec, t, tm) ==
    IF rec = NoJob THEN NoJob
    ELSE IF t.fullText = <<>> /\ rec.text = <<>>
         THEN [rec EXCEPT !.status = "failed", !.error = "Empty response"]
         ELSE [rec EXCEPT !.status = "completed", !.text = t.fullText,
                          !.tokensUsed = t.totalTokens]

\* variation: the completion write leaves tokensUsed alone
CompleteWriteKeepsTokens(v, rec, t, tm) ==
    IF rec = NoJob THEN NoJob
    ELSE [rec EXCEPT !.status = "completed", !.text = t.fullText]

\* the write that marks the job completed
CompleteWrite(v, rec, t, tm) ==
    CASE v = "sdk" ->
           IF rec = NoJob
           THEN Job("completed", t.fullText, UndefStr, UndefNum, UndefNum,
                    UndefNum, UndefNum)
           ELSE [rec EXCEPT !.status = "completed", !.text = t.fullText]
      [] v = "raw" ->
           IF rec = NoJob
           THEN Job("completed", <<>>, UndefStr, UndefNum, UndefNum,
                    UndefNum, tm)
           ELSE [rec EXCEPT !.status = "completed", !.completedAt = tm]
      [] OTHER ->
           IF rec = NoJob THEN NoJob
           ELSE [rec EXCEPT !.status = "completed", !.text = t.fullText,
                            !.tokensUsed = t.totalTokens]

\* variation: the catch block records the error and leaves the status
FailWriteKeepsStatus(v, rec, msg) ==
    IF rec = NoJob THEN NoJob ELSE [rec EXCEPT !.error = msg]

\* variation: the catch block drops the record, jobs.delete(id)
FailWriteDrops(v, rec, msg) == NoJob

\* the write of the catch block
FailWrite(v, rec, msg) ==
    IF v \in {"sdk", "raw"}
    THEN Job("failed", <<>>, msg, UndefNum, UndefNum, UndefNum, UndefNum)
    ELSE IF rec = NoJob THEN NoJob
         ELSE [rec EXCEPT !.status = "failed",
                          !.error = IF Falsy(msg) THEN "Stream failed" ELSE msg]

\* err.message of the thrown value: a text, the empty text, or none
ErrMessages == {"Connection error", "", UndefStr}

\* variation: the catch block writes the failure and the task goes on
FailKeepsRunning(i, msg) ==
    LET new == FailWrite(variant, jobs[i], msg)
    IN /\ jobs' = [jobs EXCEPT ![i] = new]
       /\ task' = task
       /\ ghost' = [ghost EXCEPT ![i] = [Hist(@, jobs[i], new) EXCEPT !.threw = TRUE]]
       /\ resp' = NoResp
       /\ UNCHANGED <<variant, load, now, lastReap, events>>

\* catch (err): the task ends in its catch block
Fail(i, msg) ==
    LET new == FailWrite(variant, jobs[i], msg)
    IN /\ jobs' = [jobs EXCEPT ![i] = new]
       /\ task' = [task EXCEPT ![i].pc = "done"]
       /\ ghost' = [ghost EXCEPT ![i] = [Hist(@, jobs[i], new) EXCEPT !.threw = TRUE]]
       /\ resp' = NoResp
       /\ UNCHANGED <<variant, load, now, lastReap, events>>

\* the end of the try block: mark completed
Complete(i, rec, t, g) ==
    LET new == CompleteWrite(variant, rec, t, now)
    IN /\ jobs' = [jobs EXCEPT ![i] = new]
       /\ task' = [task EXCEPT ![i] = [t EXCEPT !.pc = "done"]]
       /\ ghost' = [ghost EXCEPT ![i] = Hist(g, jobs[i], new)]

\* --------------------------------------------------------- upstream call
\* the awaited upstream call rejects (network error, API error)
UpstreamReject(i, msg) ==
    /\ task[i].pc = "calling"
    /\ Fail(i, msg)

\* the awaited SDK call resolves with a stream
StreamOpened(i) ==
    /\ variant # "raw"
    /\ task[i].pc = "calling"
    /\ task' = [task EXCEPT ![i].pc = "streaming"]
    /\ resp' = NoResp
    /\ UNCHANGED <<variant, load, now, lastReap, events, jobs, ghost>>

RawResponses ==
    {[ok |-> TRUE, status |-> 200, body |-> TRUE],
     [ok |-> FALSE, status |-> 500, body |-> TRUE],
     [ok |-> TRUE, status |-> 200, body |-> FALSE]}

StatusMessage(r) == IF r.status = 500 THEN "OpenAI API error (500)"
                    ELSE "OpenAI API error (200)"

\* variation: only the status is tested, if (!resp.ok) throw
RefusedNotOk(r) == ~r.ok

\* if (!resp.ok || !resp.body) throw
Refused(r) == ~r.ok \/ ~r.body

\* fetch resolves with a response
RawResponse(i, r) ==
    LET g == [ghost[i] EXCEPT !.upstream = r]
        new == FailWrite(variant, jobs[i], StatusMessage(r))
    IN /\ variant = "raw"
       /\ task[i].pc = "calling"
       /\ IF Refused(r)
          THEN /\ jobs' = [jobs EXCEPT ![i] = new]
               /\ task' = [task EXCEPT ![i].pc = "done"]
               /\ ghost' = [ghost EXCEPT ![i] =
                               [Hist(g, jobs[i], new) EXCEPT !.threw = TRUE]]
          ELSE /\ task' = [task EXCEPT ![i].pc = "streaming"]
               /\ ghost' = [ghost EXCEPT ![i] = g]
               /\ jobs' = jobs
       /\ resp' = NoResp
       /\ UNCHANGED <<variant, load, now, lastReap, events>>

\* the stream iteration throws
StreamThrow(i, msg) ==
    /\ task[i].pc = "streaming"
    /\ Fail(i, msg)

\* ------------------------------------------- structured-event runner (part_001)
\* the texts an item-completion or terminal block may carry
Short == <<"b", "b">>
OneChunk == Rep(CHUNK_SIZE, "c")
TwoChunks == Rep(CHUNK_SIZE + 1, "d")
Long == Rep(1000, "e")
FinalTexts == {Short, OneChunk, TwoChunks, Long}

Block(ty, tx) == [type |-> ty, text |-> tx]
Item(ty, content) == [type |-> ty, content |-> content]
NoDelta == Block(UndefStr, <<>>)
NoItem == Item(UndefStr, <<>>)
NoResponse == [usage |-> UndefNum, output |-> <<>>]
Event(ty, d, it, r) == [type |-> ty, delta |-> d, item |-> it, response |-> r]

DeltaEvents ==
    {Event("response.output_item.delta", d, NoItem, NoResponse) :
        d \in {Block("text_delta", <<"a">>), Block("text_delta", <<>>)}}

ItemDoneEvents ==
    {Event("response.output_item.done", NoDelta,
           Item("message", <<Block("output_text", tx)>>), NoResponse) :
        tx \in FinalTexts}

ResponseDoneEvents ==
    {Event("response.done", NoDelta, NoItem, r) :
        r \in {[usage |-> UndefNum, output |-> <<>>],
               [usage |-> 9, output |-> <<>>],
               [usage |-> 7,
                output |-> <<Item("message", <<Block("output_text", TwoChunks)>>)>>]}}

StructuredEvents == DeltaEvents \cup ItemDoneEvents \cup ResponseDoneEvents

\* variation: a text of the same length replaces the buffer
RECURSIVE LongestOfContentOrEqual(_, _)
LongestOfContentOrEqual(full, content) ==
    IF content = <<>> THEN full
    ELSE LET c == Head(content)
             f == IF c.type = "output_text" /\ c.text # <<>>
                     /\ Len(c.text) >= Len(full)
                  THEN c.text ELSE full
         IN LongestOfContentOrEqual(f, Tail(content))

\* for (const content of item.content): take a longer output_text
RECURSIVE LongestOfContent(_, _)
LongestOfContent(full, content) ==
    IF content = <<>> THEN full
    ELSE LET c == Head(content)
             f == IF c.type = "output_text" /\ c.text # <<>>
                     /\ Len(c.text) > Len(full)
                  THEN c.text ELSE full
         IN LongestOfContent(f, Tail(content))

\* for (const item of event.response.output)
RECURSIVE LongestOfOutput(_, _)
LongestOfOutput(full, output) ==
    IF output = <<>> THEN full
    ELSE LET it == Head(output)
             f == IF it.type = "message"
                  THEN LongestOfContent(full, it.content) ELSE full
         IN LongestOfOutput(f, Tail(output))

\* the length of the longest output_text of the message items of an event
Max(a, b) == IF a >= b THEN a ELSE b

RECURSIVE LongestBlock(_)
LongestBlock(content) ==
    IF content = <<>> THEN 0
    ELSE Max(IF Head(content).type = "output_text"
             THEN Len(Head(content).text) ELSE 0,
             LongestBlock(Tail(content)))

RECURSIVE LongestItem(_)
LongestItem(output) ==
    IF output = <<>> THEN 0
    ELSE Max(IF Head(output).type = "message"
             THEN LongestBlock(Head(output).content) ELSE 0,
             LongestItem(Tail(output)))

Carried(ev) ==
    Max(LongestBlock(ev.item.content), LongestItem(ev.response.output))

DeltaHasText(ev) == ev.delta.type = "text_delta" /\ ev.delta.text # <<>>

\* the locals of runStreamingJob after one event of the for-await loop
StructuredLocals(t, ev) ==
    CASE ev.type = "response.output_item.delta" ->
           [t EXCEPT !.receivedDeltas = TRUE,
                     !.fullText = IF DeltaHasText(ev)
                                  THEN @ \o ev.delta.text ELSE @]
      [] ev.type = "response.output_item.done" ->
           [t EXCEPT !.fullText = IF ev.item.type = "message"
                                  THEN LongestOfContent(@, ev.item.content)
                                  ELSE @]
      [] ev.type = "response.done" ->
           [t EXCEPT !.totalTokens = IF ev.response.usage = UndefNum
                                     THEN @ ELSE ev.response.usage,
                     !.fullText = LongestOfOutput(@, ev.response.output)]
      [] OTHER -> t

\* one event of the structured stream
StructuredEvent(i, ev) ==
    /\ variant = "structured"
    /\ task[i].pc = "streaming"
    /\ events < load.events
    /\ LET t == StructuredLocals(task[i], ev)
           writes == ev.type = "response.output_item.delta" /\ DeltaHasText(ev)
       IN /\ task' = [task EXCEPT ![i] = t]
          /\ jobs' = [jobs EXCEPT ![i] =
                         IF writes THEN WriteText(@, t.fullText) ELSE @]
          /\ ghost' = [ghost EXCEPT
                         ![i].merged = @ \/ (writes /\ jobs[i] # NoJob),
                         ![i].usage = IF ev.type = "response.done"
                                         /\ ev.response.usage # UndefNum
                                      THEN Reported(@, ev.response.usage)
                                      ELSE @,
                         ![i].longest = Max(@, Carried(ev)),
                         ![i].deltaLen = @ + Len(ev.delta.text),
                         ![i].sent = @ \o ev.delta.text]
    /\ resp' = NoResp
    /\ events' = events + 1
    /\ UNCHANGED <<variant, load, now, lastReap>>

\* variation: substring(delivered, CHUNK_SIZE), the second argument taken
\* for a length (substring swaps its arguments when the first is larger)
ChunkSubstrConfusion(fullText, delivered) ==
    IF delivered <= CHUNK_SIZE
    THEN SubSeq(fullText, delivered + 1, Min(CHUNK_SIZE, Len(fullText)))
    ELSE SubSeq(fullText, CHUNK_SIZE + 1, Min(delivered, Len(fullText)))

\* variation: substring(delivered, delivered + CHUNK_SIZE), the window
\* instead of the prefix
ChunkWindow(fullText, delivered) ==
    SubSeq(fullText, delivered + 1, Min(delivered + CHUNK_SIZE, Len(fullText)))

\* the text of one simulated snapshot
Chunk(fullText, delivered) == Substring0(fullText, delivered + CHUNK_SIZE)

\* variation: an iteration that finds no record does not advance,
\* if (!currentJob) continue
SimIterationWaitsForJob(i, t) ==
    IF jobs[i] = NoJob
    THEN UNCHANGED <<jobs, task, ghost>>
    ELSE LET chunk == Chunk(t.fullText, t.delivered)
             rec == WriteText(jobs[i], chunk)
             g == [ghost[i] EXCEPT !.snaps = Append(@, chunk)]
             d == t.delivered + CHUNK_SIZE
         IN IF d < Len(t.fullText)
            THEN /\ jobs' = [jobs EXCEPT ![i] = rec]
                 /\ task' = [task EXCEPT ![i] =
                                [t EXCEPT !.pc = "delaying", !.delivered = d,
                                          !.wakeAt = now + DELAY_MS]]
                 /\ ghost' = [ghost EXCEPT ![i] = g]
            ELSE Complete(i, rec, [t EXCEPT !.delivered = d], g)

\* one iteration of the while loop of simulateChunkedDelivery, followed,
\* when it was the last one, by the completion write of the caller
SimIteration(i, t) ==
    LET chunk == Chunk(t.fullText, t.delivered)
        rec == WriteText(jobs[i], chunk)
        g == IF rec # NoJob
             THEN [ghost[i] EXCEPT !.snaps = Append(@, chunk)]
             ELSE ghost[i]
        d == t.delivered + CHUNK_SIZE
    IN IF d < Len(t.fullText)
       THEN /\ jobs' = [jobs EXCEPT ![i] = rec]
            /\ task' = [task EXCEPT ![i] =
                           [t EXCEPT !.pc = "delaying", !.delivered = d,
                                     !.wakeAt = now + DELAY_MS]]
            /\ ghost' = [ghost EXCEPT ![i] = g]
       ELSE Complete(i, rec, [t EXCEPT !.delivered = d], g)

\* the stream ends: simulated delivery or direct completion
StructuredEnd(i) ==
    /\ variant = "structured"
    /\ task[i].pc = "streaming"
    /\ IF ~task[i].receivedDeltas /\ Len(task[i].fullText) > 0
       THEN IF jobs[i] = NoJob
            THEN Complete(i, jobs[i], task[i], ghost[i])
            ELSE SimIteration(i, task[i])
       ELSE Complete(i, WriteText(jobs[i], task[i].fullText), task[i], ghost[i])
    /\ resp' = NoResp
    /\ UNCHANGED <<variant, load, now, lastReap, events>>

\* the delay between two snapshots elapsed
ChunkWake(i) ==
    /\ task[i].pc = "delaying"
    /\ now >= task[i].wakeAt
    /\ SimIteration(i, task[i])
    /\ resp' = NoResp
    /\ UNCHANGED <<variant, load, now, lastReap, events>>

\* ------------------------------------------------ delta-only runner (part_002)
DeltaChunks ==
    {[content |-> <<"a">>, usage |-> UndefNum],
     [content |-> <<"b">>, usage |-> UndefNum],
     [content |-> <<>>, usage |-> UndefNum],
     [content |-> <<>>, usage |-> 7],
     [content |-> <<>>, usage |-> 9]}

\* variation: the fragment is put in front, fullText = delta + fullText
AppendDeltaInFront(fullText, delta) == delta \o fullText

\* fullText += delta
AppendDelta(fullText, delta) == fullText \o delta

DeltaOnlyChunk(i, ch) ==
    /\ variant = "delta"
    /\ task[i].pc = "streaming"
    /\ events < load.events
    /\ LET t == [task[i] EXCEPT
                   !.fullText = IF ch.content # <<>>
                                THEN AppendDelta(@, ch.content) ELSE @,
                   !.totalTokens = IF ch.usage = UndefNum THEN @ ELSE ch.usage]
           writes == ch.content # <<>>
       IN /\ task' = [task EXCEPT ![i] = t]
          /\ jobs' = [jobs EXCEPT ![i] =
                         IF writes THEN WriteText(@, t.fullText) ELSE @]
          /\ ghost' = [ghost EXCEPT
                         ![i].merged = @ \/ (writes /\ jobs[i] # NoJob),
                         ![i].usage = IF ch.usage # UndefNum
                                      THEN Reported(@, ch.usage) ELSE @,
                         ![i].sent = @ \o ch.content]
    /\ resp' = NoResp
    /\ events' = events + 1
    /\ UNCHANGED <<variant, load, now, lastReap>>

\* --------------------------------------------------- sdk runner (index.js:34)
SdkEvents == {Block("output_text", <<"a">>), Block("other", <<"a">>)}

SdkEvent(i, ev) ==
    /\ variant = "sdk"
    /\ task[i].pc = "streaming"
    /\ events < load.events
    /\ LET writes == ev.type = "output_text"
           t == [task[i] EXCEPT
                   !.fullText = IF writes THEN @ \o ev.text ELSE @]
       IN /\ task' = [task EXCEPT ![i] = t]
          /\ jobs' = [jobs EXCEPT ![i] =
                         IF writes THEN WriteTextSdk(@, t.fullText) ELSE @]
          /\ ghost' = [ghost EXCEPT ![i].merged = @ \/ writes]
    /\ resp' = NoResp
    /\ events' = events + 1
    /\ UNCHANGED <<variant, load, now, lastReap>>

\* ------------------------------------------------- raw-line runner (index.js:182)
\* a parsed line object, as extractDeltaFromChunk reads it
Json(nul, d, ot, hasContent, content) ==
    [null |-> nul, delta |-> d, output_text |-> ot,
     hasContent |-> hasContent, content |-> content]

RECURSIVE ConcatBlocks(_)
ConcatBlocks(content) ==
    IF content = <<>> THEN <<>>
    ELSE LET b == Head(content)
         IN (IF b.type \in {"output_text", "text"} THEN b.text ELSE <<>>)
              \o ConcatBlocks(Tail(content))

\* variation: the older style is looked at first
extractOlderStyleFirst(json) ==
    IF json.null THEN <<>>
    ELSE IF json.output_text # <<>> THEN json.output_text
    ELSE IF json.delta.type = "output_text" /\ json.delta.text # <<>>
         THEN json.delta.text
    ELSE IF json.hasContent THEN ConcatBlocks(json.content)
    ELSE <<>>

extractDeltaFromChunk(json) ==
    IF json.null THEN <<>>
    ELSE IF json.delta.type = "output_text" /\ json.delta.text # <<>>
         THEN json.delta.text
    ELSE IF json.output_text # <<>> THEN json.output_text
    ELSE IF json.hasContent THEN ConcatBlocks(json.content)
    ELSE <<>>

JsonObjects ==
    {Json(FALSE, Block("output_text", <<"a">>), <<>>, FALSE, <<>>),
     Json(FALSE, NoDelta, <<>>, FALSE, <<>>)}

\* a line of a decoded chunk: prefix is line.startsWith("data: "), done is
\* line === "data: [DONE]", parses is whether JSON.parse accepts the rest
\* part and of tell a whole line from the two fragments of a line that the
\* byte stream cut between two reads: of is the text the cut line carried
Line(prefix, done, parses, json) ==
    [prefix |-> prefix, done |-> done, parses |-> parses, json |-> json,
     part |-> "whole", of |-> <<>>]

Lines ==
    {Line(FALSE, FALSE, FALSE, Json(TRUE, NoDelta, <<>>, FALSE, <<>>)),
     Line(TRUE, TRUE, FALSE, Json(TRUE, NoDelta, <<>>, FALSE, <<>>)),
     Line(TRUE, FALSE, FALSE, Json(TRUE, NoDelta, <<>>, FALSE, <<>>))}
    \cup {Line(TRUE, FALSE, TRUE, j) : j \in JsonObjects}

\* the text one line adds to job.text
LineDelta(line) ==
    IF ~line.prefix \/ line.done \/ ~line.parses THEN <<>>
    ELSE extractDeltaFromChunk(line.json)

RECURSIVE LinesDelta(_)
LinesDelta(lines) ==
    IF lines = <<>> THEN <<>>
    ELSE LineDelta(Head(lines)) \o LinesDelta(Tail(lines))

DataLine == Line(TRUE, FALSE, TRUE,
                 Json(FALSE, Block("output_text", <<"a">>), <<>>, FALSE, <<>>))

\* where a read may end inside a data line: in its "data: " prefix or in
\* its JSON text
CutPlaces == {"prefix", "json"}

NullJson == Json(TRUE, NoDelta, <<>>, FALSE, <<>>)

\* chunk.split("\n") gives the fragment before the cut as the last line of
\* one chunk: it starts with "data: " when the cut is in the JSON text, and
\* no proper prefix of a JSON object parses
HeadOfCut(line, place) ==
    [Line(place = "json", FALSE, FALSE, NullJson) EXCEPT !.part = "head"]

\* and the fragment after the cut as the first line of the next chunk: it
\* does not start with "data: "
TailOfCut(line, place) ==
    [Line(FALSE, FALSE, FALSE, NullJson) EXCEPT
        !.part = "tail", !.of = LineDelta(line)]

CutChunks ==
    {<<HeadOfCut(DataLine, c)>> : c \in CutPlaces}
      \cup {<<TailOfCut(DataLine, c)>> : c \in CutPlaces}

\* the chunks reader.read() may return: one line, a data line and another
\* line, or a fragment of a data line
RawChunks ==
    {<<l>> : l \in Lines} \cup {<<DataLine, l>> : l \in Lines} \cup CutChunks

\* the text of the data lines the upstream sent, completed by a chunk: that
\* of its whole lines, and that of a cut line when its second fragment
\* comes right after the first
RECURSIVE SentText(_, _)
SentText(lines, open) ==
    IF lines = <<>> THEN <<>>
    ELSE LET l == Head(lines)
         IN (IF l.part = "whole" THEN LineDelta(l)
             ELSE IF l.part = "tail" /\ open THEN l.of
             ELSE <<>>)
              \o SentText(Tail(lines), FALSE)

\* variation: JSON.parse outside the try block
LineThrowsOnBadJson(line) == line.prefix /\ ~line.done /\ ~line.parses

\* try { ... } catch (_) {} around the handling of a line: nothing a line
\* raises leaves the loop
LineThrows(line) == FALSE

\* why a line is skipped, or "valid"
LineKind(line) ==
    IF ~line.prefix THEN "no prefix"
    ELSE IF line.done THEN "[DONE]"
    ELSE IF ~line.parses THEN "bad JSON"
    ELSE "valid"

Range(sq) == {sq[k] : k \in 1..Len(sq)}

\* the text a valid line carries in its delta
RECURSIVE ValidText(_)
ValidText(lines) ==
    IF lines = <<>> THEN <<>>
    ELSE (IF LineKind(Head(lines)) = "valid"
             /\ Head(lines).json.delta.type = "output_text"
          THEN Head(lines).json.delta.text ELSE <<>>)
           \o ValidText(Tail(lines))

\* the objects JSON.parse returned for the lines of a chunk
RECURSIVE ParsedOf(_)
ParsedOf(lines) ==
    IF lines = <<>> THEN <<>>
    ELSE (IF LineKind(Head(lines)) = "valid"
          THEN <<Head(lines).json>> ELSE <<>>)
           \o ParsedOf(Tail(lines))

\* one reader.read() that returns a chunk
RawRead(i, chunk) ==
    /\ variant = "raw"
    /\ task[i].pc = "streaming"
    /\ events < load.events
    /\ events' = events + 1
    /\ IF \E l \in Range(chunk) : LineThrows(l)
       THEN LET new == FailWrite(variant, jobs[i], "Unexpected token")
            IN /\ jobs' = [jobs EXCEPT ![i] = new]
               /\ task' = [task EXCEPT ![i].pc = "done"]
               /\ ghost' = [ghost EXCEPT ![i] =
                               [Hist(@, jobs[i], new) EXCEPT !.threw = TRUE]]
       ELSE LET d == LinesDelta(chunk)
            IN /\ task' = task
               /\ jobs' = [jobs EXCEPT ![i].text = @ \o d]
               /\ ghost' = [ghost EXCEPT
                              ![i].merged = @ \/ d # <<>>,
                              ![i].skipped =
                                  @ \cup ({LineKind(l) : l \in Range(chunk)}
                                            \ {"valid"}),
                              ![i].valid = @ \o ValidText(chunk),
                              ![i].parsed = ParsedOf(chunk),
                              ![i].open = chunk[Len(chunk)].part = "head",
                              ![i].sent = @ \o SentText(chunk, ghost[i].open)]
    /\ resp' = NoResp
    /\ UNCHANGED <<variant, load, now, lastReap>>

\* the stream ends in the runners without simulated delivery
PlainEnd(i) ==
    /\ variant # "structured"
    /\ task[i].pc = "streaming"
    /\ Complete(i, jobs[i], task[i], ghost[i])
    /\ resp' = NoResp
    /\ UNCHANGED <<variant, load, now, lastReap, events>>

\* ------------------------------------------------------------- the reaper
\* variation: a job is deleted when its age reaches the limit
ExpiredAtLimit(rec, tm) == tm - rec.createdAt >= MAX_AGE

Expired(rec, tm) == tm - rec.createdAt > MAX_AGE

\* the reaper runs at the multiples of its period
IsCycle(tm) == tm > 0 /\ tm % REAP_INTERVAL = 0

\* setInterval callback: delete every expired job
Reap ==
    /\ HasReaper(variant)
    /\ IsCycle(now)
    /\ lastReap < now
    /\ jobs' = [i \in Ids |->
                  IF jobs[i] # NoJob /\ Expired(jobs[i], now)
                  THEN NoJob ELSE jobs[i]]
    /\ ghost' = [i \in Ids |->
                  IF jobs[i] # NoJob /\ Expired(jobs[i], now)
                  THEN [ghost[i] EXCEPT !.reaped = TRUE] ELSE ghost[i]]
    /\ lastReap' = now
    /\ resp' = NoResp
    /\ UNCHANGED <<variant, load, now, events, task>>

\* ------------------------------------------------------------------ time
Cycles == {k * REAP_INTERVAL : k \in 1..MaxCycles}

\* a timer whose callback has not run yet
TimerDue ==
    \/ HasReaper(variant) /\ IsCycle(now) /\ lastReap < now
    \/ \E i \in Ids : task[i].pc = "delaying" /\ task[i].wakeAt <= now

\* the instants after now at which something can happen: a request arrives,
\* a delay of the simulated delivery ends, or the reaper runs.  A cycle in
\* which the reaper finds no expired job changes nothing, and only the
\* first cycle is kept of those.
AfterNow(S) == {t \in S : t > now}

Earliest(S) == CHOOSE x \in S : \A y \in S : x <= y

BusyCycles ==
    {c \in AfterNow(Cycles) :
        \E i \in Ids : jobs[i] # NoJob /\ Expired(jobs[i], c)}

NextCycles ==
    IF ~HasReaper(variant) THEN {}
    ELSE AfterNow({REAP_INTERVAL})
           \cup (IF BusyCycles = {} THEN {} ELSE {Earliest(BusyCycles)})

NextInstants ==
    AfterNow(ArrivalTimes) \cup NextCycles
      \cup {task[i].wakeAt : i \in {k \in Ids : task[k].pc = "delaying"}}

\* time passes until the next instant
Tick ==
    /\ ~TimerDue
    /\ NextInstants # {}
    /\ now' = Earliest(NextInstants)
    /\ resp' = NoResp
    /\ UNCHANGED <<variant, load, lastReap, events, jobs, task, ghost>>

\* ----------------------------------------------------------- status poll
\* job.text.length / 3000 and the product by 100 are IEEE-754 double
\* operations, each rounded to nearest (ties to even) on a 53-bit mantissa.
\* ScaleUp and ScaleDen bring the quotient n / d into [1, 2).
RECURSIVE ScaleUp(_, _)
ScaleUp(n, d) == IF n >= d THEN n ELSE ScaleUp(2 * n, d)

RECURSIVE ScaleDen(_, _)
ScaleDen(n, d) == IF n < 2 * d THEN d ELSE ScaleDen(n, 2 * d)

\* the remainder of the binary long division after j more mantissa bits
RECURSIVE Remainder(_, _, _)
Remainder(r, d, j) == IF j = 0 THEN r ELSE Remainder((2 * r) % d, d, j - 1)

PowersOfTwo == {1, 2, 4, 8, 16, 32, 64, 128, 256, 512, 1024}

\* TRUE when (len / 3000) * 100 evaluates to a double below the integer
\* len / 30 (len a positive multiple of 30): the quotient was rounded down
\* by r / den of its last mantissa place, which is 100 r / den of that place
\* in the product, and the product rounds below the integer K when this
\* exceeds half the distance from K to the double before it
ProductRoundsBelow(len) ==
    LET num == ScaleUp(len, 3000)
        den == ScaleDen(len, 3000)
        r51 == Remainder(num - den, den, 51)
        lastBit == (2 * r51) \div den
        r == (2 * r51) % den
        roundsUp == 2 * r > den \/ (2 * r = den /\ lastBit = 1)
        K == len \div 30
        places == IF 100 * num < 128 * den THEN 64 ELSE 128
        h == IF K \in PowersOfTwo THEN 4 ELSE 2
    IN ~roundsUp /\ 100 * r * h > den * places

\* Math.floor((job.text.length / 3000) * 100).  When len is no multiple of
\* 30 the exact value is at least 1/30 away from every integer, far more
\* than the two roundings can move it.
FloorPercent(len) ==
    IF len = 0 \/ len % 30 # 0 THEN (len * 100) \div 3000
    ELSE IF ProductRoundsBelow(len) THEN (len \div 30) - 1 ELSE len \div 30

EstimatedCompletion(rec) ==
    IF rec.status = "in_progress" THEN Min(95, FloorPercent(Len(rec.text)))
    ELSE IF rec.status = "completed" THEN 100 ELSE 0

HasProgress(v) == v \in {"structured", "delta"}

\* scenario: job.text || null in index.js, job.text || "" in the others
Scenario(v, rec) ==
    [null |-> rec.text = <<>> /\ ~HasProgress(v), text |-> rec.text]

\* the body of the 200 response of a status poll
StatusBody(v, rec) ==
    CASE v = "sdk" ->
           Body(rec.status, Scenario(v, rec), rec.error, UndefNum, UndefNum,
                UndefNum)
      [] v = "raw" ->
           Body(rec.status, Scenario(v, rec),
                IF Falsy(rec.error) THEN NullStr ELSE rec.error,
                UndefNum, UndefNum, UndefNum)
      [] OTHER ->
           Body(rec.status, Scenario(v, rec), rec.error, rec.tokensUsed,
                Len(rec.text), EstimatedCompletion(rec))

NotFoundBody ==
    Body(UndefStr, NoScenario, "Job not found", UndefNum, UndefNum, UndefNum)

\* variation: a failed job is answered with a server error
StatusCodeByOutcome(rec) == IF rec.status = "failed" THEN 500 ELSE 200

\* res.json(...) of the status handler: the default status code
StatusCode(rec) == 200

\* GET /status/:jobId, GET /api/status/:jobId
Poll(i) ==
    /\ IF jobs[i] = NoJob
       THEN /\ resp' = [kind |-> "status", code |-> 404, jobId |-> i,
                        stored |-> "none", valid |-> TRUE,
                        body |-> NotFoundBody]
            /\ ghost' = ghost
       ELSE /\ resp' = [kind |-> "status", code |-> StatusCode(jobs[i]), jobId |-> i,
                        stored |-> jobs[i].status, valid |-> TRUE,
                        body |-> StatusBody(variant, jobs[i])]
            /\ ghost' = [ghost EXCEPT ![i].seen =
                           IF jobs[i].text = <<>> \/ ~load.watch THEN @
                           ELSE Scenario(variant, jobs[i])]
    /\ UNCHANGED <<variant, load, now, lastReap, events, jobs, task>>

Next ==
    \/ \E req \in Requests : Create(req)
    \/ \E i \in Ids, msg \in ErrMessages : UpstreamReject(i, msg)
    \/ \E i \in Ids : StreamOpened(i)
    \/ \E i \in Ids, r \in RawResponses : RawResponse(i, r)
    \/ \E i \in Ids, msg \in ErrMessages : StreamThrow(i, msg)
    \/ \E i \in Ids, ev \in StructuredEvents : StructuredEvent(i, ev)
    \/ \E i \in Ids : StructuredEnd(i)
    \/ \E i \in Ids : ChunkWake(i)
    \/ \E i \in Ids, ch \in DeltaChunks : DeltaOnlyChunk(i, ch)
    \/ \E i \in Ids, ev \in SdkEvents : SdkEvent(i, ev)
    \/ \E i \in Ids, chunk \in RawChunks : RawRead(i, chunk)
    \/ \E i \in Ids : PlainEnd(i)
    \/ Reap
    \/ Tick
    \/ \E i \in Ids : Poll(i)

Spec == Init /\ [][Next]_vars

\* ------------------------------------------- the status poll on sampled stores
\* text lengths around the multiples of 30 (one percent is 30 characters),
\* the cap of 95 and the divisor 3000
SampleLengths ==
    {0, 1, 29, 30, 31, 150, 869, 870, 871, 1710, 1740, 2849, 2850, 3000, 4500}

\* records the store of part_001 or part_002 holds after the create handler
\* returned: the runner has set in_progress before any poll can run
SampleRecords ==
    {[InitialRecord("structured", 0) EXCEPT
         !.status = st, !.text = Rep(L, "x"),
         !.error = IF st = "failed" THEN "Stream failed" ELSE NullStr] :
       st \in {"in_progress", "completed", "failed"}, L \in SampleLengths}

SampleTask(rec) ==
    [IdleTask EXCEPT
       !.pc = IF rec.status = "in_progress" THEN "streaming" ELSE "done",
       !.fullText = rec.text,
       !.receivedDeltas = rec.text # <<>>]

SampleGhost(rec) ==
    [NoGhost EXCEPT
       !.hist = IF rec.status = "in_progress"
                THEN <<"queued", "in_progress">>
                ELSE <<"queued", "in_progress", rec.status>>,
       !.merged = rec.text # <<>>,
       !.threw = rec.status = "failed",
       !.deltaLen = Len(rec.text)]

\* one job whose stream delivered a text of a sampled length
ProgressInit ==
    /\ variant \in {v \in Variants : HasProgress(v)}
    /\ load \in {l \in Loads : l.jobs = 1}
    /\ now = 0
    /\ lastReap = 0
    /\ events = 0
    /\ \E rec \in SampleRecords :
          /\ jobs = [i \in Ids |-> IF i = 1 THEN rec ELSE NoJob]
          /\ task = [i \in Ids |-> IF i = 1 THEN SampleTask(rec) ELSE IdleTask]
          /\ ghost = [i \in Ids |-> IF i = 1 THEN SampleGhost(rec) ELSE NoGhost]
    /\ resp = NoResp

ProgressNext == \E i \in Ids : Poll(i)

ProgressSpec == ProgressInit /\ [][ProgressNext]_vars

\* --------------------------------------------- create requests with trends
TrendNames == {"inflation", "drought"}

TrendValues ==
    {JsNumber(Finite(20)), JsNumber(Finite(25)), JsNumber(Finite(0)),
     JsNumber(Finite(0 - 10)), JsNumber(Finite(40)), JsNumber(Finite(30)),
     JsString("2"), JsString("abc"), JsString(""), JsString("NaN"),
     JsString("Infinity"), JsNull, JsTrue, JsObject}

TrendMaps == UNION {[K -> TrendValues] : K \in SUBSET TrendNames}

TrendRequests ==
    {[Request("x", "x", "x", "project") EXCEPT
         !.trends = [defined |-> TRUE, map |-> m]] : m \in TrendMaps}
      \cup {Request("x", "x", "x", "project")}

TrendsInit == Init /\ load.jobs = 1

TrendsNext == \E req \in TrendRequests : Create(req)

TrendsSpec == TrendsInit /\ [][TrendsNext]_vars

\* ------------------------------------- the raw runner on sampled line objects
\* objects JSON.parse may return for a data line: with or without a delta
\* (of type output_text or another, with or without text), with or without
\* output_text, with a content that is no array or an array of blocks of
\* the types output_text, text and another
SampleDeltas ==
    {NoDelta, Block("output_text", <<"a">>), Block("output_text", <<>>),
     Block("text_delta", <<"a">>)}

SampleContents ==
    {<<>>, <<Block("output_text", <<"c">>)>>, <<Block("text", <<"d">>)>>,
     <<Block("image", <<"e">>)>>, <<Block("output_text", <<>>)>>,
     <<Block("text", <<"d">>), Block("image", <<"e">>),
       Block("output_text", <<"c">>)>>}

SampleJsons ==
    {NullJson}
      \cup {Json(FALSE, d, ot, FALSE, <<>>) :
               d \in SampleDeltas, ot \in {<<>>, <<"b">>}}
      \cup {Json(FALSE, d, ot, TRUE, c) :
               d \in SampleDeltas, ot \in {<<>>, <<"b">>}, c \in SampleContents}

ExtractInit == Init /\ variant = "raw" /\ load.jobs = MaxJobs

ExtractNext ==
    \/ \E req \in Requests : Create(req)
    \/ \E i \in Ids, r \in RawResponses : RawResponse(i, r)
    \/ \E i \in Ids, json \in SampleJsons :
          RawRead(i, <<Line(TRUE, FALSE, TRUE, json)>>)

ExtractSpec == ExtractInit /\ [][ExtractNext]_vars

\* ------------------------------------------------- the timers of the loop
\* The event loop runs every timer that is due: time passes, the callback
\* of setInterval runs at each period and the task suspended in
\* setTimeout(resolve, DELAY_MS) resumes.  Nothing obliges the upstream
\* service to answer, to send an event or to end its stream, nor a client
\* to send a request.
\* The liveness properties are checked on the server with the simulated
\* delivery, part_001, under the load of MaxJobs clients.
LiveInit == Init /\ variant = "structured" /\ load.jobs = MaxJobs

LiveNext ==
    \/ \E req \in Requests : Create(req)
    \/ \E i \in Ids, msg \in ErrMessages : UpstreamReject(i, msg)
    \/ \E i \in Ids : StreamOpened(i)
    \/ \E i \in Ids, msg \in ErrMessages : StreamThrow(i, msg)
    \/ \E i \in Ids, ev \in StructuredEvents : StructuredEvent(i, ev)
    \/ \E i \in Ids : StructuredEnd(i)
    \/ \E i \in Ids : ChunkWake(i)
    \/ Reap
    \/ Tick
    \/ \E i \in Ids : Poll(i)

LiveSpec ==
    /\ LiveInit
    /\ [][LiveNext]_vars
    /\ WF_vars(Tick)
    /\ WF_vars(Reap)
    /\ \A i \in Ids : WF_vars(ChunkWake(i))

\* ================================================================ properties
Present(i) == jobs[i] # NoJob

Last(sq) == sq[Len(sq)]

\* ceil(a / b)
CeilDiv(a, b) == (a + b - 1) \div b

\* C1: the status values the store holds for a job over time are, in order,
\* queued, in_progress and then completed or failed: the history of status
\* writes is a prefix of one of the two sequences and ends with the status
\* the store holds now
LegalHistories ==
    {<<"queued">>, <<"queued", "in_progress">>,
     <<"queued", "in_progress", "completed">>,
     <<"queued", "in_progress", "failed">>}

C1_StatusOrder ==
    \A i \in Ids :
        /\ ghost[i].hist # <<>> => ghost[i].hist \in LegalHistories
        /\ Present(i) => /\ ghost[i].hist # <<>>
                         /\ jobs[i].status = Last(ghost[i].hist)

C1_Witness ==
    \E i \in Ids, k \in Ids :
        /\ Present(i) /\ Present(k)
        /\ ghost[i].hist = <<"queued", "in_progress", "completed">>
        /\ ghost[k].hist = <<"queued", "in_progress", "failed">>

\* C2: while a job stays in_progress, no step makes its stored text shorter
C2_TextNeverShrinks ==
    [][\A i \in Ids :
          (/\ Present(i) /\ jobs[i].status = "in_progress"
           /\ jobs'[i] # NoJob /\ jobs'[i].status = "in_progress")
          => Len(jobs'[i].text) >= Len(jobs[i].text)]_vars

C2_Witness ==
    \E i \in Ids :
        /\ Present(i) /\ jobs[i].status = "in_progress"
        /\ task[i].pc = "delaying"
        /\ Len(jobs[i].text) = 2 * CHUNK_SIZE

\* C3: when the upstream call or stream fails after a non-empty partial text
\* was written, the job becomes failed, keeps that text and gets a non-empty
\* error message
C3_FailureKeepsPartialText ==
    [][\A i \in Ids :
          (/\ Present(i) /\ jobs[i].text # <<>>
           /\ ~ghost[i].threw /\ ghost'[i].threw)
          => /\ jobs'[i] # NoJob
             /\ jobs'[i].status = "failed"
             /\ jobs'[i].text = jobs[i].text
             /\ ~Falsy(jobs'[i].error)]_vars

\* C4: the step to failed leaves tokensUsed, createdAt, startedAt and
\* completedAt as they were
C4_FailureIsFieldMerge ==
    [][\A i \in Ids :
          (/\ Present(i) /\ jobs[i].status # "failed"
           /\ jobs'[i] # NoJob /\ jobs'[i].status = "failed")
          => /\ jobs'[i].tokensUsed = jobs[i].tokensUsed
             /\ jobs'[i].createdAt = jobs[i].createdAt
             /\ jobs'[i].startedAt = jobs[i].startedAt
             /\ jobs'[i].completedAt = jobs[i].completedAt]_vars

\* C5: a job the reaper deleted stays out of the store whatever its task
\* does afterwards, and a status poll for it is answered 404
C5_ReapedStaysAbsent ==
    \A i \in Ids :
        ghost[i].reaped =>
            /\ jobs[i] = NoJob
            /\ (resp.kind = "status" /\ resp.jobId = i) => resp.code = 404

\* a job reaped in the middle of the simulated delivery whose task ran to
\* its end: later snapshots and the completion write found no record
C5_Witness ==
    \E i \in Ids :
        /\ ghost[i].reaped
        /\ task[i].pc = "done"
        /\ ghost[i].snaps # <<>>
        /\ Len(ghost[i].snaps) < CeilDiv(Len(task[i].fullText), CHUNK_SIZE)
        /\ jobs[i] = NoJob

\* C6: a reaper cycle deletes the jobs older than 15 minutes, whatever their
\* status, and leaves every other job as it was
C6_ReaperDeletesExactlyOld ==
    [][lastReap' # lastReap =>
          \A i \in Ids :
              Present(i) =>
                  IF now - jobs[i].createdAt > 15 * 60 * 1000
                  THEN jobs'[i] = NoJob
                  ELSE jobs'[i] = jobs[i]]_vars

\* after a cycle: one job deleted while in progress, another one of exactly
\* 15 minutes kept
C6_Witness ==
    \E i \in Ids, k \in Ids :
        /\ lastReap = now
        /\ ghost[i].reaped /\ Last(ghost[i].hist) = "in_progress"
        /\ Present(k) /\ now - jobs[k].createdAt = MAX_AGE

\* C7: when a create handler answers with the job id, the upstream call of
\* the job is still pending and the job is neither completed nor failed;
\* and every job created and not reaped is in the store
C7_ResponseBeforeCompletion ==
    /\ (resp.kind = "create" /\ resp.code = 200) =>
           /\ Present(resp.jobId)
           /\ task[resp.jobId].pc = "calling"
           /\ resp.stored \in {"queued", "in_progress"}
           /\ jobs[resp.jobId].status \in {"queued", "in_progress"}
    /\ \A i \in Ids :
           (task[i].pc # "idle" /\ ~ghost[i].reaped) => Present(i)

C7_Witness ==
    /\ resp.kind = "create" /\ resp.code = 200 /\ resp.jobId = MaxJobs
    /\ Present(1) /\ jobs[1].status = "failed"

\* C8: a create request that breaks the input contract is answered 400 and
\* changes neither the store nor the tasks
C8_InvalidCreateRejected ==
    [][(resp'.kind = "create" /\ ~resp'.valid) =>
          /\ resp'.code = 400
          /\ jobs' = jobs
          /\ task' = task]_vars

\* C9: a job completed through the simulated delivery of a text of length L
\* got ceil(L / 150) snapshots, the k-th being the prefix of length
\* min(150 k, L) of the text, and holds the whole text
C9_SnapshotCount ==
    \A i \in Ids :
        (/\ variant = "structured" /\ Present(i)
         /\ jobs[i].status = "completed"
         /\ ~task[i].receivedDeltas /\ task[i].fullText # <<>>)
        => LET L == Len(task[i].fullText)
               sn == ghost[i].snaps
           IN /\ Len(sn) = CeilDiv(L, 150)
              /\ \A k \in 1..Len(sn) :
                     sn[k] = SubSeq(task[i].fullText, 1, Min(150 * k, L))
              /\ jobs[i].text = task[i].fullText

C9_Witness ==
    \E i \in Ids :
        /\ Present(i) /\ jobs[i].status = "completed"
        /\ Len(jobs[i].text) = 1000
        /\ Len(ghost[i].snaps) = 7
        /\ Len(ghost[i].snaps[6]) = 900
        /\ ghost[i].snaps[7] = jobs[i].text

\* C10: in the structured-event runner a job that completes with a
\* non-empty text none of which was merged incrementally got its text
\* through the simulated delivery
C10_NoMergedTextMeansSimulated ==
    \A i \in Ids :
        (/\ variant = "structured" /\ Present(i)
         /\ jobs[i].status = "completed"
         /\ ~ghost[i].merged /\ jobs[i].text # <<>>)
        => ghost[i].snaps # <<>>

\* --------------------------------------------------------------------------
IsPrefix(a, b) == Len(a) <= Len(b) /\ SubSeq(b, 1, Len(a)) = a

\* C11: every text a status poll returned for a job is a prefix of the text
\* the job holds once it is completed
C11_PolledTextIsPrefixOfFinal ==
    \A i \in Ids :
        (/\ Present(i) /\ jobs[i].status = "completed"
         /\ ~ghost[i].seen.null)
        => IsPrefix(ghost[i].seen.text, jobs[i].text)

\* C12: the error of a job in the store is a non-empty message when its
\* status is failed, and null in every other status
C12_ErrorIffFailed ==
    \A i \in Ids :
        Present(i) =>
            IF jobs[i].status = "failed"
            THEN jobs[i].error \notin {NullStr, UndefStr, ""}
            ELSE jobs[i].error = NullStr

\* C13: in the servers that keep tokensUsed it is a non-negative integer, 0
\* while the job is queued or in_progress; its stored value changes only in
\* the step to completed, and a completed job holds the total of the last
\* usage report of its stream, or 0 when there was none
ReportedTotal(i) ==
    IF ghost[i].usage.last = UndefNum THEN 0 ELSE ghost[i].usage.last

C13_TokensSetOnceAtCompletion ==
    [][\A i \in Ids :
          (HasProgress(variant) /\ jobs'[i] # NoJob) =>
              /\ jobs'[i].tokensUsed \in Nat
              /\ jobs'[i].status \in {"queued", "in_progress"}
                    => jobs'[i].tokensUsed = 0
              /\ jobs'[i].status = "completed"
                    => jobs'[i].tokensUsed = ReportedTotal(i)'
              /\ (Present(i) /\ jobs'[i].tokensUsed # jobs[i].tokensUsed)
                    => /\ jobs[i].status = "in_progress"
                       /\ jobs'[i].status = "completed"]_vars

\* a job completed after usage reports of different totals holds the last
C13_Witness ==
    \E i \in Ids :
        /\ Present(i) /\ jobs[i].status = "completed"
        /\ ghost[i].usage = [last |-> 9, revised |-> TRUE]
        /\ jobs[i].tokensUsed = 9

\* C14: in the structured-event runner a step changes the text buffer only
\* to a strictly longer text, and a completed job holds a text at least as
\* long as every text an item-completion or terminal block carried and as
\* the deltas received together
C14_LongestTextWins ==
    [][\A i \in Ids :
          variant = "structured" =>
              /\ task'[i].fullText # task[i].fullText
                    => Len(task'[i].fullText) > Len(task[i].fullText)
              /\ (jobs'[i] # NoJob /\ jobs'[i].status = "completed")
                    => /\ Len(jobs'[i].text) >= ghost'[i].longest
                       /\ Len(jobs'[i].text) >= ghost'[i].deltaLen]_vars

\* a job completed with its two deltas after an item-completion text of the
\* same length arrived and was not taken
C14_Witness ==
    \E i \in Ids :
        /\ variant = "structured"
        /\ Present(i) /\ jobs[i].status = "completed"
        /\ jobs[i].text = <<"a", "a">>
        /\ ghost[i].longest = 2 /\ ghost[i].deltaLen = 2

\* C15: in every server a job that is in_progress, completed or failed has
\* a startedAt timestamp, a completed job has a completedAt timestamp, and
\* completedAt is not set while the job is queued or in_progress
IsTime(x) == x \in Nat

C15_TimestampsFollowStatus ==
    \A i \in Ids :
        Present(i) =>
            /\ jobs[i].status \in {"in_progress", "completed", "failed"}
                  => IsTime(jobs[i].startedAt)
            /\ jobs[i].status = "completed" => IsTime(jobs[i].completedAt)
            /\ jobs[i].status \in {"queued", "in_progress"}
                  => ~IsTime(jobs[i].completedAt)

\* C16: a create handler gives the job an id no earlier job got, and a step
\* of one job's task or of a create handler changes the record of that job
\* only (the reaper, which is no task of a job, is the one step that may
\* touch several records)
C16_JobsIsolated ==
    [][/\ (resp'.kind = "create" /\ resp'.code = 200)
            => /\ task[resp'.jobId].pc = "idle"
               /\ jobs[resp'.jobId] = NoJob
               /\ ~ghost[resp'.jobId].reaped
       /\ lastReap' = lastReap
            => \A i \in Ids, k \in Ids :
                   (i # k /\ jobs'[i] # jobs[i]) => jobs'[k] = jobs[k]
       /\ \A i \in Ids :
              task'[i] # task[i] =>
                  \A k \in Ids \ {i} : jobs'[k] = jobs[k]]_vars

\* two jobs created at the same instant: one was completed with the text
\* of its stream while the other failed with an empty text
C16_Witness ==
    \E i \in Ids, k \in Ids :
        /\ i # k /\ Present(i) /\ Present(k)
        /\ variant = "structured"
        /\ jobs[i].createdAt = jobs[k].createdAt
        /\ jobs[i].status = "completed" /\ jobs[i].text = <<"a">>
        /\ jobs[k].status = "failed" /\ jobs[k].text = <<>>

\* C17: in the raw-line runner a read never moves the job to failed and
\* leaves its status as it was, whatever lines the chunk holds; the stored
\* text is the text of the lines that were not skipped, and so is the text
\* of the job once completed
C17_BadLinesSkipped ==
    [][variant = "raw" =>
          \A i \in Ids :
              /\ (events' # events /\ Present(i))
                    => /\ jobs'[i] # NoJob
                       /\ jobs'[i].status = jobs[i].status
                       /\ ghost'[i].threw = ghost[i].threw
              /\ (jobs'[i] # NoJob /\ jobs'[i].status # "failed")
                    => jobs'[i].text = ghost'[i].valid]_vars

\* a job completed with the text of its two valid lines after a line
\* without the prefix, a [DONE] line and a line that is no JSON were read
C17_Witness ==
    \E i \in Ids :
        /\ variant = "raw"
        /\ Present(i) /\ jobs[i].status = "completed"
        /\ ghost[i].skipped = {"no prefix", "[DONE]", "bad JSON"}
        /\ jobs[i].text = <<"a", "a">>

\* C18: a status poll for an id that is not in the store is answered 404 with
\* the error Job not found; a poll for an id in the store is answered 200
\* with the status of the record, whatever that status; and a poll
\* leaves the store and the tasks as they were
C18_PollReadsOnly ==
    [][resp'.kind = "status" =>
          /\ jobs' = jobs
          /\ task' = task
          /\ IF jobs[resp'.jobId] = NoJob
             THEN /\ resp'.code = 404
                  /\ resp'.body.error = "Job not found"
             ELSE /\ resp'.code = 200
                  /\ resp'.body.status = jobs[resp'.jobId].status]_vars

\* a poll answered 200 for a failed job, with the failure in the body, while
\* the other job id is not in the store
C18_Witness ==
    /\ resp.kind = "status" /\ resp.code = 200
    /\ resp.body.status = "failed"
    /\ resp.body.error = "Connection error"
    /\ \E k \in Ids : jobs[k] = NoJob

\* C19: the body of a poll of an existing job gives estimatedCompletion 0
\* for a queued job, min(95, floor(len * 100 / 3000)) for a job in progress
\* and 100 for a completed one, at most 95 for every job that is not
\* completed, and characterCount the length of the text
C19_ProgressEstimate ==
    (resp.kind = "status" /\ resp.code = 200 /\ HasProgress(variant)) =>
        LET rec == jobs[resp.jobId]
            len == Len(rec.text)
            est == resp.body.estimatedCompletion
        IN /\ rec.status = "queued" => est = 0
           /\ rec.status = "in_progress"
                 => est = Min(95, (len * 100) \div 3000)
           /\ rec.status = "completed" => est = 100
           /\ rec.status # "completed" => est <= 95
           /\ resp.body.characterCount = len

\* C20: normalizeTrends gives a map with the keys of its input whose values
\* are the integers 1, 2 or 3: 1 for a value that is no finite number and
\* for a number below 1, 3 for a number above 3
C20_TrendsNormalized ==
    \A i \in Ids :
        task[i].pc # "idle" =>
            LET in == ghost[i].trends
                out == task[i].trends
            IN /\ DOMAIN out = DOMAIN in
               /\ \A k \in DOMAIN in :
                     LET n == ToNumber(in[k])
                     IN /\ IsFinite(out[k])
                        /\ out[k].tenths \in {10, 20, 30}
                        /\ ~IsFinite(n) => out[k].tenths = 10
                        /\ (IsFinite(n) /\ n.tenths < 10) => out[k].tenths = 10
                        /\ (IsFinite(n) /\ n.tenths > 30) => out[k].tenths = 30

\* C21: the writes to one job are serialized.  One lifecycle task is started
\* per job id and never started again; the record of a job changes only in
\* a step of its own task, in the create handler or in the reaper; every
\* write is made on the record as the store holds it in that step, so the
\* deletion by the reaper is never undone and a write of the text leaves
\* the status and the error alone
C21_WritesSerialized ==
    [][\A i \in Ids :
          /\ task[i].pc # "idle"
                => /\ task'[i].pc # "idle"
                   /\ task'[i].pc = "calling" => task[i].pc = "calling"
          /\ jobs'[i] # jobs[i]
                => \/ task'[i] # task[i]
                   \/ variant = "raw" /\ task[i].pc = "streaming"
                        /\ events' = events + 1
                   \/ lastReap' = now /\ lastReap < now /\ jobs'[i] = NoJob
          /\ (ghost[i].reaped /\ jobs[i] = NoJob) => jobs'[i] = NoJob
          /\ (Present(i) /\ jobs'[i] # NoJob
                /\ jobs'[i].status = jobs[i].status)
                => jobs'[i] = [jobs[i] EXCEPT !.text = jobs'[i].text]
      ]_vars

\* the reaper deleted a job of the delta-only runner while its stream was
\* open, a chunk with text arrived afterwards and the stream ended
C21_Witness ==
    \E i \in Ids :
        /\ variant = "delta"
        /\ ghost[i].reaped
        /\ jobs[i] = NoJob
        /\ task[i].pc = "done"
        /\ ~ghost[i].threw
        /\ ~ghost[i].merged
        /\ Len(task[i].fullText) > 0

\* C22: an error raised in the lifecycle task of a job whose record exists
\* (the upstream call rejects, the response is refused, the stream throws)
\* ends the task with the job failed: the step that catches the error
\* leaves the status failed, and the record of a task that caught an error
\* is failed for as long as it exists, never queued, in_progress or completed
C22_ErrorsEndFailed ==
    [][\A i \in Ids :
          /\ (~ghost[i].threw /\ ghost'[i].threw /\ Present(i))
                => /\ jobs'[i] # NoJob
                   /\ jobs'[i].status = "failed"
                   /\ task'[i].pc = "done"
          /\ (ghost'[i].threw /\ jobs'[i] # NoJob)
                => jobs'[i].status = "failed"
      ]_vars

\* the stream of the structured runner threw after an item completion
\* carried a text and before any of it was written to the store
C22_Witness ==
    \E i \in Ids :
        /\ variant = "structured"
        /\ ghost[i].threw
        /\ Present(i)
        /\ jobs[i].status = "failed"
        /\ jobs[i].text = <<>>
        /\ Len(task[i].fullText) > 0

\* C23: a job whose upstream stream never terminates does not stay
\* in_progress indefinitely: whatever the upstream service does, a task
\* that waits on its stream leaves that wait, because the stream ended or
\* threw or because the task was aborted after the maximum execution time
C23_SilentStreamTimesOut ==
    \A i \in Ids : (task[i].pc = "streaming") ~> (task[i].pc # "streaming")

\* C24: the number of jobs with an upstream call or stream in flight never
\* exceeds a fixed bound, a create request that arrives at the bound being
\* rejected: of the MaxJobs requests the clients send, at least one waits
\* for another job's stream to end or is refused
InFlight == {i \in Ids : task[i].pc \in {"calling", "streaming"}}

C24_InFlightBounded == Cardinality(InFlight) < MaxJobs

\* C25: the final text of the raw-line runner does not depend on how the
\* byte stream is cut into read chunks: a completed job holds the text of
\* all the data lines the upstream sent, also of a line that a read cut in
\* the middle
C25_ChunkingIrrelevant ==
    \A i \in Ids :
        (variant = "raw" /\ Present(i) /\ jobs[i].status = "completed")
            => jobs[i].text = ghost[i].sent

\* C26: a terminal record is frozen: once the status of a job is completed
\* or failed, no step changes its status, text, error or tokensUsed; the
\* only change left is the deletion of the record by the reaper
C26_TerminalFrozen ==
    [][\A i \in Ids :
          (Present(i) /\ jobs[i].status \in {"completed", "failed"})
              => \/ jobs'[i] = jobs[i]
                 \/ /\ jobs'[i] = NoJob
                    /\ HasReaper(variant)
                    /\ lastReap' = now /\ lastReap < now
      ]_vars

\* a failed job kept its record through the steps of another job, until
\* the reaper deleted it
C26_Witness ==
    \E i \in Ids :
        /\ ghost[i].reaped
        /\ jobs[i] = NoJob
        /\ ghost[i].threw
        /\ Last(ghost[i].hist) = "failed"
        /\ \E j \in Ids \ {i} : task[j].pc = "done"

\* C27: no status poll sees a completed job with a partial text: a record
\* whose status is completed holds the full final text of its stream, and
\* for the whole of the simulated delivery, while snapshots are written and
\* delays run, the status of the record is in_progress
FinalText(i) == IF variant = "raw" THEN ghost[i].valid ELSE task[i].fullText

C27_CompletedMeansFullText ==
    /\ \A i \in Ids :
          Present(i) =>
             /\ jobs[i].status = "completed" => jobs[i].text = FinalText(i)
             /\ task[i].pc = "delaying" => jobs[i].status = "in_progress"
             /\ task[i].pc # "done" => jobs[i].status # "completed"
    /\ (resp.kind = "status" /\ resp.code = 200
          /\ resp.body.status = "completed")
          => resp.body.scenario.text = FinalText(resp.jobId)

\* a poll between two snapshots of a simulated delivery answered
\* in_progress with the first snapshot, a part of the final text
C27_Witness ==
    /\ resp.kind = "status" /\ resp.code = 200
    /\ resp.body.status = "in_progress"
    /\ task[resp.jobId].pc = "delaying"
    /\ Len(ghost[resp.jobId].snaps) = 1
    /\ resp.body.scenario.text = ghost[resp.jobId].snaps[1]
    /\ Len(resp.body.scenario.text) < Len(task[resp.jobId].fullText)

\* C28: when a create handler produces its response with status queued, the
\* status the store holds for the job is queued: the runner writes
\* in_progress only after the response, in every create handler
C28_QueuedWhenAnswered ==
    (resp.kind = "create" /\ resp.code = 200) => resp.stored = "queued"

\* C29: with the timers of the event loop firing, a job whose upstream
\* stream has ended reaches completed or failed unless the reaper deleted
\* it first: the simulated delivery of every text ends, also when the
\* reaper deletes the job while the delivery is running
C29_DeliveryTerminates ==
    \A i \in Ids :
        (task[i].pc = "delaying")
            ~> (/\ task[i].pc = "done"
                /\ Present(i) => jobs[i].status \in {"completed", "failed"})

\* a simulated delivery is between two snapshots of a job that the reaper
\* deleted after the first snapshots were written
C29_Witness ==
    \E i \in Ids :
        /\ task[i].pc = "delaying"
        /\ ghost[i].reaped
        /\ jobs[i] = NoJob
        /\ ghost[i].snaps # <<>>
        /\ task[i].delivered > Len(ghost[i].snaps) * CHUNK_SIZE

\* C30: in the structured-event, delta-only and raw-line runners a stream
\* that ends normally without having carried any text ends the job as
\* completed, with an empty text and a null error, not as failed
C30_EmptyStreamCompletes ==
    \A i \in Ids :
        (/\ variant \in {"structured", "delta", "raw"}
         /\ task[i].pc = "done" /\ ~ghost[i].threw /\ Present(i)
         /\ task[i].fullText = <<>> /\ ghost[i].sent = <<>>)
        => /\ jobs[i].status = "completed"
           /\ jobs[i].text = <<>>
           /\ jobs[i].error = NullStr

\* the stream of the delta-only runner brought a usage report and no
\* content, and ended
C30_Witness ==
    \E i \in Ids :
        /\ variant = "delta"
        /\ Present(i) /\ jobs[i].status = "completed"
        /\ jobs[i].text = <<>> /\ jobs[i].error = NullStr
        /\ jobs[i].tokensUsed = 9

\* C31: in the raw-line runner an upstream response that is not 2xx or has
\* no body takes the job from in_progress to failed with an error that
\* names the upstream status; no line of the stream is read and the job is
\* never completed
C31_RefusedResponseFails ==
    \A i \in Ids :
        LET r == ghost[i].upstream
        IN (variant = "raw" /\ r # NoUpstream /\ (~r.ok \/ ~r.body))
           => /\ task[i].pc = "done"
              /\ ghost[i].hist = <<"queued", "in_progress", "failed">>
              /\ jobs[i].status = "failed"
              /\ r.status = 500 => jobs[i].error = "OpenAI API error (500)"
              /\ r.status = 200 => jobs[i].error = "OpenAI API error (200)"
              /\ jobs[i].text = <<>>
              /\ ghost[i].sent = <<>> /\ ghost[i].valid = <<>>
              /\ ghost[i].skipped = {} /\ ~ghost[i].open

\* the upstream answered 200 without a body
C31_Witness ==
    \E i \in Ids :
        /\ variant = "raw"
        /\ ghost[i].upstream = [ok |-> TRUE, status |-> 200, body |-> FALSE]
        /\ jobs[i].status = "failed"
        /\ jobs[i].error = "OpenAI API error (200)"

\* C32: in the delta-only runner the text the store holds for a job that
\* was not reaped is, after every chunk, the concatenation in arrival order
\* of the contents of the chunks received so far; a chunk without content
\* leaves the text as it was
C32_TextIsConcatenation ==
    /\ [](\A i \in Ids :
            (variant = "delta" /\ Present(i)) => jobs[i].text = ghost[i].sent)
    /\ [][\A i \in Ids :
            (variant = "delta" /\ Present(i) /\ jobs'[i] # NoJob
               /\ ghost'[i].sent = ghost[i].sent)
            => jobs'[i].text = jobs[i].text]_vars

\* two chunks with different contents and one without content arrived
C32_Witness ==
    \E i \in Ids :
        /\ variant = "delta"
        /\ Present(i) /\ jobs[i].status = "in_progress"
        /\ jobs[i].text = <<"a", "b">>
        /\ ghost[i].usage.last = 9

\* C33: extractDeltaFromChunk returns, for a parsed line object, the first
\* that applies of: delta.text when delta.type is output_text and the text
\* is not empty; output_text when it is not empty; when content is an
\* array, the texts of its blocks of type output_text or text, in order;
\* the empty string.  It returns the empty string for null, and the read
\* loop appends what it returns to the text of the job
RECURSIVE Flatten(_)
Flatten(texts) ==
    IF texts = <<>> THEN <<>> ELSE Head(texts) \o Flatten(Tail(texts))

TextBlocks(content) ==
    SelectSeq(content, LAMBDA b : b.type \in {"output_text", "text"})

FirstApplicable(json) ==
    CASE json.null -> <<>>
      [] ~json.null /\ json.delta.type = "output_text" /\ json.delta.text # <<>>
           -> json.delta.text
      [] ~json.null /\ ~(json.delta.type = "output_text" /\ json.delta.text # <<>>)
           /\ json.output_text # <<>>
           -> json.output_text
      [] ~json.null /\ ~(json.delta.type = "output_text" /\ json.delta.text # <<>>)
           /\ json.output_text = <<>> /\ json.hasContent
           -> Flatten([k \in 1..Len(TextBlocks(json.content)) |->
                          TextBlocks(json.content)[k].text])
      [] OTHER -> <<>>

C33_FirstApplicableText ==
    [][\A i \in Ids :
          (task[i].pc = "streaming" /\ events' = events + 1
             /\ ghost'[i] # ghost[i] /\ Len(ghost'[i].parsed) = 1)
          => /\ task'[i].pc = "streaming"
             /\ jobs'[i].text
                   = jobs[i].text \o FirstApplicable(ghost'[i].parsed[1])
      ]_vars

\* the last line read had a delta of type output_text without text, no
\* output_text and a content of three blocks, one of them of another type
C33_Witness ==
    \E i \in Ids :
        /\ variant = "raw"
        /\ ghost[i].parsed
              = <<Json(FALSE, Block("output_text", <<>>), <<>>, TRUE,
                       <<Block("text", <<"d">>), Block("image", <<"e">>),
                         Block("output_text", <<"c">>)>>)>>
        /\ jobs[i].text = <<"d", "c">>

\* C34: the three decoders are interchangeable for the lifecycle: when the
\* upstream delivers text fragments, an optional usage report and the end
\* of the stream, the raw-line, structured-event and delta-only runners end
\* with the same record: completed, the fragments in order as text, and
\* the reported total (0 without a report) as tokensUsed
C34_DecodersInterchangeable ==
    \A i \in Ids :
        (/\ variant \in {"raw", "structured", "delta"}
         /\ task[i].pc = "done" /\ ~ghost[i].threw /\ Present(i)
         /\ ghost[i].longest = 0)
        => /\ jobs[i].status = "completed"
           /\ jobs[i].text = ghost[i].sent
           /\ jobs[i].tokensUsed = ReportedTotal(i)

====
